---- MODULE Spec2Model ----
(***************************************************************************)
(* Model of the buyer-lead store and of the request handlers that mutate   *)
(* it: PUT and DELETE /api/buyers/[id], POST /api/buyers and the CSV       *)
(* import POST /api/buyers/import.  Every handler is split at its awaited  *)
(* database statements, so that the statements of concurrent requests      *)
(* interleave as they do on the shared PostgreSQL store.                   *)
(*                                                                         *)
(* A buyer row carries the columns id, ownerId, phone, email, status,      *)
(* notes, tags and updatedAt.  The remaining columns (fullName, city,      *)
(* propertyType, bhk, purpose, budgets, timeline, source) are required or  *)
(* optional scalars that the handlers treat exactly like phone, status and *)
(* email, and are not carried by the store.  The later sections model the  *)
(* validation schemas over records that do carry propertyType, bhk and the *)
(* budgets, the two rate limiters, the redirect callback of the sign-in    *)
(* and the tag editor, each under a specification of its own.              *)
(***************************************************************************)
EXTENDS Integers, Sequences, FiniteSets, TLC

(***************************************************************************)
(* Bounds of the model.                                                    *)
(***************************************************************************)
MaxOps == 2      \* requests started in one behaviour
MaxSlots == 2    \* requests in flight at the same time
MaxTime == 1     \* last value of the millisecond clock
MaxEdits == 1    \* keys in which a PUT body differs from the fetched buyer
MaxRows == 2     \* data rows of an uploaded CSV file
MaxEntries == 6  \* history entries of one buyer in a drawn history
MaxStamp == 2    \* last changedAt of a drawn history entry
MaxChanges == 2  \* keys in which a validated record differs from the sample record
MaxClock == 5    \* last value of the clock of the sliding-window limiter
MaxCalls == 4    \* check calls of one identifier of the sliding-window limiter
Interval == 2    \* config.interval of the sliding-window limiter, in clock values
CleanupAge == 4  \* the age at which cleanup drops a request, in clock values

Slots == 1..MaxSlots

(***************************************************************************)
(* Values.                                                                 *)
(***************************************************************************)
Null == "<null>"            \* SQL NULL / JS null
Users == {"u1", "u2"}       \* session.user.id of the signed-in users
Anon == "<none>"            \* no session
MissingId == 0              \* a well-formed uuid that names no seeded or generated row
BadUuid == -1               \* a string that is not a uuid

P1 == "9876543210"
P2 == "9876543211"
BadPhone == "123"
ELower == "rajesh@example.com"
EUpper == "Rajesh@Example.com"
BadEmail == "not-an-email"

statusEnum == {"New", "Qualified"}
BadStatus == "Bogus"

\* String.prototype.toLowerCase / lower() on the e-mail and query values of the model
toLowerCase(s) == IF s = EUpper THEN ELower ELSE IF s = "RAJESH" THEN "rajesh" ELSE s

\* Date.prototype.toISOString: the canonical text of an instant, with milliseconds.
\* A datetime string is [t, fmt]; "s" is the same instant written without the
\* millisecond part, "bad" is a string that is no datetime.
toISOString(t) == [t |-> t, fmt |-> "ms"]
Tokens == [t : 0..MaxTime, fmt : {"ms", "s"}] \cup {[t |-> 0, fmt |-> "bad"]}

\* Object spread / property assignment and property removal on a JS object,
\* an object being a function from its own keys to their values
Set(o, k, v) == [kk \in DOMAIN o \cup {k} |-> IF kk = k THEN v ELSE o[kk]]
Drop(o, k) == [kk \in DOMAIN o \ {k} |-> o[kk]]
Has(o, k) == k \in DOMAIN o

VARIABLES
  buyers,     \* table buyers: a set of rows
  history,    \* table buyer_history: rows in insertion order
  now,        \* Date.now() and the database's now(), in milliseconds
  nextId,     \* the next uuid that defaultRandom() / uuidv4() returns
  ops,        \* requests started so far
  req         \* per slot: the position and the locals of the request in flight

vars == <<buyers, history, now, nextId, ops, req>>

(***************************************************************************)
(* Request bookkeeping.                                                    *)
(***************************************************************************)
Idle == [pc |-> "idle"]

\* a finished request: the response status and whether one of its statements
\* was committed to the store; `seen` is what the request met when it arrived
Done(kind, seen, resp, wrote) ==
  [pc |-> "done", kind |-> kind, seen |-> seen, resp |-> resp, wrote |-> wrote]

Free(r) == req[r].pc \in {"idle", "done"}

\* a new request takes the lowest slot never used, or else the lowest slot whose
\* request has been answered
CanStart(r) ==
  /\ ops < MaxOps
  /\ Free(r)
  /\ \A q \in Slots :
       /\ req[q].pc = "idle" /\ req[r].pc = "done" => FALSE
       /\ q < r /\ req[q].pc = req[r].pc => FALSE

\* getServerSession(authOptions): the session of the caller, if any
Authenticated(user) == user \in Users

\* check(request, limitType) of lib/rateLimit: rateLimiter answers success: true
\* for every request
check(limitType) == [success |-> TRUE]

(***************************************************************************)
(* Validation schemas (lib/validations.ts).                                *)
(***************************************************************************)
buyerKeys == {"phone", "email", "status", "notes", "tags"}
updateKeys == buyerKeys \cup {"id", "updatedAt"}

\* every key of the body kept
Strip_Passthrough(body, keys) == body
\* z.object strips the keys that the schema does not name
Strip(body, keys) == [k \in DOMAIN body \cap keys |-> body[k]]

PhoneOk(p) == p \in {P1, P2}                  \* /^\d{10,15}$/
EmailOk(e) == e \in {ELower, EUpper, ""}      \* z.string().email() .or(z.literal(''))
IsUuid(x) == x >= 0                           \* z.string().uuid()
IsDatetime(tok) == tok.fmt \in {"ms", "s"}    \* z.string().datetime()

buyerFieldsOk(body) ==
  /\ Has(body, "phone") /\ PhoneOk(body.phone)
  /\ Has(body, "email") => EmailOk(body.email)
  /\ Has(body, "status") => body.status \in statusEnum

\* .default('New') for status and .default([]) for tags
withDefaults(body) ==
  LET a == IF Has(body, "status") THEN body ELSE Set(body, "status", "New")
  IN IF Has(a, "tags") THEN a ELSE Set(a, "tags", <<>>)

createBuyerSchemaOk(body) == buyerFieldsOk(body)
createBuyerSchemaParse(body) == withDefaults(Strip(body, buyerKeys))

updateBuyerSchemaOk(body) ==
  /\ buyerFieldsOk(body)
  /\ Has(body, "id") /\ IsUuid(body.id)
  /\ Has(body, "updatedAt") /\ IsDatetime(body.updatedAt)
updateBuyerSchemaParse(body) == withDefaults(Strip(body, updateKeys))

(***************************************************************************)
(* The relational store (schema.ts): statements and their constraints.     *)
(***************************************************************************)
RowsWithId(rows, id) == {b \in rows : b.id = id}
HistoryOf(hist, id) == SelectSeq(hist, LAMBDA h : h.buyerId = id)

\* the delete of a buyer takes every history entry with it
CascadeDelete_All(hist, id) == <<>>
\* the reference declared without onDelete: "cascade" and not enforced
CascadeDelete_None(hist, id) == hist
\* buyer_history.buyer_id references buyers.id with onDelete: "cascade"
CascadeDelete(hist, id) == SelectSeq(hist, LAMBDA h : h.buyerId # id)

\* DELETE FROM buyers WHERE id = $1
DeleteBuyer(rows, hist, id) ==
  [buyers |-> rows \ RowsWithId(rows, id), history |-> CascadeDelete(hist, id),
   n |-> Cardinality(RowsWithId(rows, id))]

\* UPDATE buyers SET ... WHERE id = $1: the keys of `set` are the assigned columns.
\* buyers.id is the primary key, and buyer_history.buyer_id references it with no
\* ON UPDATE action, so a change of id is refused while history rows reference it.
ApplySet(row, set) == [k \in DOMAIN row |-> IF Has(set, k) THEN set[k] ELSE row[k]]
UpdateBuyer(rows, hist, id, set) ==
  LET hit == RowsWithId(rows, id)
      new == {ApplySet(b, set) : b \in hit}
      rest == rows \ hit
      pkOk == \A b \in new : RowsWithId(rest, b.id) = {}
      fkOk == \A b \in new : b.id = id \/ Len(HistoryOf(hist, id)) = 0
  IN [ok |-> pkOk /\ fkOk, buyers |-> rest \cup new, n |-> Cardinality(hit)]

\* buyer_id declared without the reference
InsertHistoryOk_Unchecked(rows, entry) == TRUE
\* INSERT INTO buyer_history: buyer_id must reference a row of buyers
InsertHistoryOk(rows, entry) == RowsWithId(rows, entry.buyerId) # {}

(***************************************************************************)
(* Request bodies.  A PUT body is the buyer as the edit form fetched it,   *)
(* changed in at most MaxEdits keys.                                       *)
(***************************************************************************)
AsBody(b) ==
  LET base == [id |-> b.id, phone |-> b.phone, status |-> b.status, tags |-> b.tags,
               updatedAt |-> toISOString(b.updatedAt)]
      e == IF b.email = Null THEN base ELSE Set(base, "email", b.email)
  IN IF b.notes = Null THEN e ELSE Set(e, "notes", b.notes)

OneEdit(x, ids) ==
  {Set(x, "phone", v) : v \in {P1, P2, BadPhone}}
    \cup {Set(x, "email", v) : v \in {ELower, EUpper, "", BadEmail}}
    \cup {Set(x, "status", v) : v \in statusEnum \cup {BadStatus}}
    \cup {Set(x, "notes", v) : v \in {"call back", ""}}
    \cup {Set(x, "tags", v) : v \in {<<>>, <<"urgent">>}}
    \cup {Set(x, "id", v) : v \in ids \cup {MissingId, BadUuid}}
    \cup {Set(x, "updatedAt", v) : v \in Tokens}
    \cup {Set(x, "ownerId", v) : v \in Users}
    \cup {Drop(x, k) : k \in {"email", "status", "notes", "tags"}}

RECURSIVE Edited(_, _, _)
Edited(x, ids, n) ==
  IF n = 0 THEN {x}
  ELSE LET prev == Edited(x, ids, n - 1)
       IN prev \cup UNION {OneEdit(y, ids) : y \in prev}

\* the row that the edit form shows for a path id that names no row
BlankRow(id) ==
  [id |-> id, ownerId |-> "u1", phone |-> P1, email |-> Null, status |-> "New",
   notes |-> Null, tags |-> <<>>, updatedAt |-> 0]

PutBodies(id) ==
  LET hit == RowsWithId(buyers, id)
      shown == IF hit = {} THEN BlankRow(id) ELSE CHOOSE b \in hit : TRUE
  IN Edited(AsBody(shown), {b.id : b \in buyers}, MaxEdits)

(***************************************************************************)
(* PUT /api/buyers/[id]                                                    *)
(***************************************************************************)
\* the ownership check left out: every signed-in user passes
IsOwner_AnyUser(buyer, user) == TRUE
IsOwner(buyer, user) == buyer.ownerId = user

\* the instants compared in place of their texts
TokenDiffers_ByInstant(currentBuyer, validatedData) ==
  currentBuyer.updatedAt # validatedData.updatedAt.t
\* currentBuyer.updatedAt.toISOString() !== validatedData.updatedAt
TokenDiffers(currentBuyer, validatedData) ==
  toISOString(currentBuyer.updatedAt) # validatedData.updatedAt

\* a !== b: two arrays are never the same object, scalars compare by value
ArrayKeys == {"tags"}
StrictNotEqual(k, a, b) == IF k \in ArrayKeys THEN TRUE ELSE a # b

\* the diff loop over Object.keys(validatedData)
DiffKeys(currentBuyer, validatedData) ==
  {k \in DOMAIN validatedData :
     /\ k # "id"
     /\ k # "updatedAt"
     /\ StrictNotEqual(k, currentBuyer[k], validatedData[k])}
ComputeDiff(currentBuyer, validatedData) ==
  [k \in DiffKeys(currentBuyer, validatedData) |->
     [from |-> currentBuyer[k], to |-> validatedData[k]]]

\* what a PUT or DELETE request meets when it arrives: is the caller signed in, is
\* the body valid, does the addressed row exist, is the caller its owner, is the
\* token the text of the stored updatedAt; for a PUT also `ownerSent`: does the body
\* name another user as the owner, and `quick`: the id and the status of a body that
\* holds no more than id, status and updatedAt, <<>> for any other body
Seen(user, id, valid, token) ==
  LET hit == RowsWithId(buyers, id)
  IN [auth |-> user \in Users,
      valid |-> valid,
      exists |-> hit # {},
      owner |-> \E b \in hit : b.ownerId = user,
      fresh |-> \E b \in hit : token = [t |-> b.updatedAt, fmt |-> "ms"]]

\* session check, rate limit, body validation, SELECT of the current row, ownership
\* and token checks, diff; the UPDATE is issued with updatedAt: new Date()
PUT_Select(r, user, id, body) ==
  /\ CanStart(r)
  /\ ops' = ops + 1
  /\ UNCHANGED <<buyers, history, now, nextId>>
  /\ LET valid == updateBuyerSchemaOk(body)
         seen == Set(Set(Seen(user, id, valid, IF Has(body, "updatedAt") THEN body.updatedAt
                                               ELSE [t |-> 0, fmt |-> "bad"]),
                         "ownerSent", \E b \in RowsWithId(buyers, id) :
                                        Has(body, "ownerId") /\ body.ownerId # b.ownerId),
                     "quick", IF DOMAIN body = {"id", "status", "updatedAt"}
                              THEN <<body.id, body.status>> ELSE <<>>)
         reply(resp) == req' = [req EXCEPT ![r] = Done("PUT", seen, resp, FALSE)]
         hit == RowsWithId(buyers, id)
     IN IF ~Authenticated(user) THEN reply(401)
        ELSE IF ~check("UPDATE_BUYER").success THEN reply(429)
        ELSE IF ~valid THEN reply(400)
        ELSE IF hit = {} THEN reply(404)
        ELSE LET currentBuyer == CHOOSE b \in hit : TRUE
                 validatedData == updateBuyerSchemaParse(body)
             IN IF ~IsOwner(currentBuyer, user) THEN reply(403)
                ELSE IF TokenDiffers(currentBuyer, validatedData) THEN reply(409)
                ELSE req' = [req EXCEPT ![r] =
                       [pc |-> "put_update", kind |-> "PUT", user |-> user, id |-> id,
                        seen |-> seen, currentBuyer |-> currentBuyer,
                        validatedData |-> validatedData,
                        diff |-> ComputeDiff(currentBuyer, validatedData),
                        set |-> Set(validatedData, "updatedAt", now),
                        updated |-> FALSE, wrote |-> FALSE]]

\* the UPDATE statement runs; a statement that fails throws into the catch (500)
PUT_Update(r, fails) ==
  /\ req[r].pc = "put_update"
  /\ UNCHANGED <<history, now, nextId, ops>>
  /\ LET q == req[r]
         res == UpdateBuyer(buyers, history, q.id, q.set)
     IN IF fails \/ ~res.ok
        THEN /\ buyers' = buyers
             /\ req' = [req EXCEPT ![r] = Done("PUT", q.seen, 500, FALSE)]
        ELSE /\ buyers' = res.buyers
             /\ IF DOMAIN q.diff # {}
                THEN req' = [req EXCEPT ![r] =
                        [q EXCEPT !.pc = "put_hist", !.updated = res.n > 0,
                                  !.wrote = res.n > 0]]
                ELSE req' = [req EXCEPT ![r] =
                        Done("PUT", q.seen,
                             IF res.n > 0 THEN 200 ELSE 500, res.n > 0)]

\* the INSERT into buyer_history runs, then NextResponse.json(updatedBuyer), which
\* throws for the undefined result of an UPDATE that matched no row
PUT_InsertHistory(r, fails) ==
  /\ req[r].pc = "put_hist"
  /\ UNCHANGED <<buyers, now, nextId, ops>>
  /\ LET q == req[r]
         entry == [buyerId |-> q.id, changedBy |-> q.user, changedAt |-> now,
                   diff |-> q.diff]
     IN IF fails \/ ~InsertHistoryOk(buyers, entry)
        THEN /\ history' = history
             /\ req' = [req EXCEPT ![r] = Done("PUT", q.seen, 500, q.wrote)]
        ELSE /\ history' = Append(history, entry)
             /\ req' = [req EXCEPT ![r] =
                     Done("PUT", q.seen,
                          IF q.updated THEN 200 ELSE 500, TRUE)]

\* the status quick action of the list view: a PUT whose body is the id of the
\* buyer, the chosen status and the text of the client's current time
updateStatus(r, user, id, newStatus) ==
  PUT_Select(r, user, id,
             [id |-> id, status |-> newStatus, updatedAt |-> toISOString(now)])

(***************************************************************************)
(* DELETE /api/buyers/[id]                                                 *)
(***************************************************************************)
\* session check, SELECT of the current row, ownership check
DELETE_Select(r, user, id) ==
  /\ CanStart(r)
  /\ ops' = ops + 1
  /\ UNCHANGED <<buyers, history, now, nextId>>
  /\ LET seen == Seen(user, id, TRUE, [t |-> 0, fmt |-> "bad"])
         reply(resp) ==
           req' = [req EXCEPT ![r] = Done("DELETE", seen, resp, FALSE)]
         hit == RowsWithId(buyers, id)
     IN IF ~Authenticated(user) THEN reply(401)
        ELSE IF hit = {} THEN reply(404)
        ELSE LET currentBuyer == CHOOSE b \in hit : TRUE
             IN IF ~IsOwner(currentBuyer, user) THEN reply(403)
                ELSE req' = [req EXCEPT ![r] =
                       [pc |-> "del_delete", kind |-> "DELETE", user |-> user,
                        id |-> id, seen |-> seen]]

\* the DELETE statement runs; the history rows go with the buyer
DELETE_Delete(r, fails) ==
  /\ req[r].pc = "del_delete"
  /\ UNCHANGED <<now, nextId, ops>>
  /\ LET q == req[r]
         res == DeleteBuyer(buyers, history, q.id)
     IN IF fails
        THEN /\ UNCHANGED <<buyers, history>>
             /\ req' = [req EXCEPT ![r] = Done("DELETE", q.seen, 500, FALSE)]
        ELSE /\ buyers' = res.buyers
             /\ history' = res.history
             /\ req' = [req EXCEPT ![r] =
                     [pc |-> "done", kind |-> "DELETE", seen |-> q.seen, resp |-> 200,
                      wrote |-> res.n > 0,
                      cascaded |-> Len(history) - Len(res.history)]]

(***************************************************************************)
(* POST /api/buyers                                                        *)
(***************************************************************************)
CreateBodies ==
  {[phone |-> p] : p \in {P1, P2, BadPhone}}
    \cup {[phone |-> p, email |-> EUpper] : p \in {P1, P2, BadPhone}}

\* a row of buyers from the values of an INSERT: absent nullable columns are NULL,
\* id is defaultRandom() unless given, updatedAt is defaultNow() unless given
NewRow(values, id, at) ==
  [id |-> IF Has(values, "id") THEN values.id ELSE id,
   ownerId |-> values.ownerId,
   phone |-> values.phone,
   email |-> IF Has(values, "email") THEN values.email ELSE Null,
   status |-> values.status,
   notes |-> IF Has(values, "notes") THEN values.notes ELSE Null,
   tags |-> values.tags,
   updatedAt |-> IF Has(values, "updatedAt") THEN values.updatedAt ELSE at]

NoSeen == [auth |-> TRUE, valid |-> TRUE, exists |-> FALSE, owner |-> FALSE, fresh |-> FALSE]

\* session check, rate limit, body validation, INSERT of the buyer
POST_Insert(r, user, body, fails) ==
  /\ CanStart(r)
  /\ ops' = ops + 1
  /\ UNCHANGED <<history, now>>
  /\ LET valid == createBuyerSchemaOk(body)
         seen == [NoSeen EXCEPT !.valid = valid, !.auth = user \in Users]
         reply(resp) ==
           /\ req' = [req EXCEPT ![r] = Done("POST", seen, resp, FALSE)]
           /\ UNCHANGED <<buyers, nextId>>
     IN IF ~Authenticated(user) THEN reply(401)
        ELSE IF ~check("CREATE_BUYER").success THEN reply(429)
        ELSE IF ~valid THEN reply(400)
        ELSE IF fails THEN reply(500)
        ELSE LET validatedData == createBuyerSchemaParse(body)
                 newBuyer == NewRow(Set(validatedData, "ownerId", user), nextId, now)
             IN /\ buyers' = buyers \cup {newBuyer}
                /\ nextId' = nextId + 1
                /\ req' = [req EXCEPT ![r] =
                        [pc |-> "post_hist", kind |-> "POST", user |-> user,
                         id |-> newBuyer.id, seen |-> seen, wrote |-> TRUE]]

\* INSERT of the creation entry into buyer_history
POST_InsertHistory(r, fails) ==
  /\ req[r].pc = "post_hist"
  /\ UNCHANGED <<buyers, now, nextId, ops>>
  /\ LET q == req[r]
         entry == [buyerId |-> q.id, changedBy |-> q.user, changedAt |-> now,
                   diff |-> [created |-> [from |-> Null, to |-> "New buyer created"]]]
     IN IF fails \/ ~InsertHistoryOk(buyers, entry)
        THEN /\ history' = history
             /\ req' = [req EXCEPT ![r] = Done("POST", q.seen, 500, TRUE)]
        ELSE /\ history' = Append(history, entry)
             /\ req' = [req EXCEPT ![r] = Done("POST", q.seen, 201, TRUE)]

(***************************************************************************)
(* POST /api/buyers/import.  `rows` is parseResult.data: one object per    *)
(* data row of the file, a blank cell being null.                          *)
(***************************************************************************)
CsvMaxRows == 200
ErrorCap == 100

\* a JS number, as its integral part and its first decimal; the second is the
\* value of the cell 1.5
WholeBudget == [whole |-> 5000000, tenths |-> 0]
FractionalBudget == [whole |-> 1, tenths |-> 5]
IsInteger(n) == n.tenths = 0
\* the budget cell left blank
NoBudget == [blank |-> TRUE]

CsvRows ==
  {[phone |-> P1, email |-> Null, budgetMin |-> NoBudget],
   [phone |-> P2, email |-> Null, budgetMin |-> WholeBudget],
   [phone |-> P2, email |-> EUpper, budgetMin |-> NoBudget],
   [phone |-> P2, email |-> ELower, budgetMin |-> NoBudget],
   [phone |-> BadPhone, email |-> Null, budgetMin |-> NoBudget],
   [phone |-> P1, email |-> Null, budgetMin |-> FractionalBudget]}

RECURSIVE SeqsUpTo(_, _)
SeqsUpTo(S, n) ==
  IF n = 0 THEN {<<>>}
  ELSE LET prev == SeqsUpTo(S, n - 1)
       IN prev \cup {Append(q, x) : q \in {p \in prev : Len(p) = n - 1}, x \in S}

\* a file of n data rows that all fail validation
FailingFile(n) == [j \in 1..n |-> [phone |-> BadPhone, email |-> Null, budgetMin |-> NoBudget]]

\* the files of at most MaxRows rows, and files at the row limit, one row over the
\* limit and one row over the cap of the reported errors
CsvFiles ==
  SeqsUpTo(CsvRows, MaxRows)
    \cup {FailingFile(n) : n \in {ErrorCap, ErrorCap + 1, CsvMaxRows, CsvMaxRows + 1}}

\* the row as the loop rebuilds it: e-mail trimmed and lower-cased, absent status,
\* notes and tags replaced by 'New', '' and []
transformedRow(row) ==
  LET t == [phone |-> row.phone,
            email |-> IF row.email # Null THEN toLowerCase(row.email) ELSE "",
            status |-> "New", notes |-> "", tags |-> <<>>]
  IN IF row.budgetMin # NoBudget THEN Set(t, "budgetMin", row.budgetMin) ELSE t

csvBuyerSchemaOk(t) ==
  /\ PhoneOk(t.phone)
  /\ EmailOk(t.email)
  /\ t.status \in statusEnum
\* budgetMin is z.number(): every number passes.
\* z.literal('').transform(() => undefined) for the e-mail
csvBuyerSchemaParse(t) == IF t.email = "" THEN Drop(t, "email") ELSE t

\* db.query.buyers.findFirst: a buyer of this user with the phone or, when the row
\* has an e-mail, with the e-mail
FindExisting(rows, validatedRow, user) ==
  {b \in rows :
     \/ b.phone = validatedRow.phone /\ b.ownerId = user
     \/ /\ Has(validatedRow, "email")
        /\ b.email = validatedRow.email
        /\ b.ownerId = user}

\* one pass of the validation loop for rows[i], with its query against the store;
\* a pass that is rejected before its query touches the locals of the request only
ImportRow(q, i) ==
  LET row == q.rows[i]
      rowNumber == i + 1
      t == transformedRow(row)
      dupPhone == t.phone # "" /\ t.phone \in q.seenPhones
      dupEmail == t.email # "" /\ t.email \in q.seenEmails
      rejected ==
        \/ dupPhone
        \/ dupEmail
        \/ ~csvBuyerSchemaOk(t)
        \/ FindExisting(buyers, csvBuyerSchemaParse(t), q.user) # {}
      valid == [k \in DOMAIN csvBuyerSchemaParse(t) \cup {"id", "ownerId", "updatedAt"} |->
                  IF k = "id" THEN nextId
                  ELSE IF k = "ownerId" THEN q.user
                  ELSE IF k = "updatedAt" THEN now
                  ELSE csvBuyerSchemaParse(t)[k]]
  IN IF rejected
     THEN [q EXCEPT !.errors = Append(@, rowNumber), !.i = i + 1]
     ELSE [q EXCEPT !.validRows = Append(@, valid), !.i = i + 1]

\* a pass throws before its query when the row fails a duplicate check of the batch or
\* the schema; such passes run without a break
SyncRejected(q, i) ==
  LET t == transformedRow(q.rows[i])
  IN \/ t.phone # "" /\ t.phone \in q.seenPhones
     \/ t.email # "" /\ t.email \in q.seenEmails
     \/ ~csvBuyerSchemaOk(t)

\* the row numbers count the data rows from 0
RunLoop_ZeroBased(q) ==
  LET stop == {j \in q.i..Len(q.rows) : ~SyncRejected(q, j)}
      end == IF stop = {} THEN Len(q.rows) + 1
             ELSE CHOOSE j \in stop : \A k \in stop : j <= k
  IN [q EXCEPT !.errors = @ \o [k \in 1..(end - q.i) |-> q.i + k - 2],
               !.i = end]
\* the passes from row q.i up to the first row whose pass reaches its query: each
\* pushes its row number, i + 2 for the 0-based i of the code, to errors
RunLoop(q) ==
  LET stop == {j \in q.i..Len(q.rows) : ~SyncRejected(q, j)}
      end == IF stop = {} THEN Len(q.rows) + 1
             ELSE CHOOSE j \in stop : \A k \in stop : j <= k
  IN [q EXCEPT !.errors = @ \o [k \in 1..(end - q.i) |-> q.i + k],
               !.i = end]

\* the loop from one awaited query to the next: the pass of the row whose query is
\* answered, then the passes that throw before their query
LoopStep(q) ==
  LET p == RunLoop(q)
  IN IF p.i > Len(p.rows) THEN p ELSE RunLoop(ImportRow(p, p.i))

\* INSERT INTO buyers: budget_min is an integer column, and a number that is not an
\* integer is refused
IntegerColumnOk(values) == Has(values, "budgetMin") => IsInteger(values.budgetMin)
InsertBuyersOk(validRows) == \A j \in 1..Len(validRows) : IntegerColumnOk(validRows[j])

\* the transaction: the buyers in one INSERT, then one history entry per buyer;
\* failAt = 0 commits, failAt = 1 fails the INSERT of the buyers and failAt = j + 1
\* the INSERT of the j-th history entry, and a failure rolls everything back
ImportEntries(validRows, user, at) ==
  [j \in 1..Len(validRows) |->
     [buyerId |-> validRows[j].id, changedBy |-> user, changedAt |-> at,
      diff |-> [from |-> <<>>, to |-> Drop(validRows[j], "id")]]]
\* the same statements outside a transaction: what ran before the failure stays
ImportTransaction_NoRollback(rows, hist, validRows, user, at, failAt) ==
  LET inserted == rows \cup {NewRow(validRows[j], 0, at) : j \in 1..Len(validRows)}
      entries == ImportEntries(validRows, user, at)
  IN IF failAt = 0 /\ InsertBuyersOk(validRows)
     THEN [ok |-> TRUE, buyers |-> inserted, history |-> hist \o entries]
     ELSE IF failAt = 1 \/ ~InsertBuyersOk(validRows)
     THEN [ok |-> FALSE, buyers |-> rows, history |-> hist]
     ELSE [ok |-> FALSE, buyers |-> inserted,
           history |-> hist \o SubSeq(entries, 1, failAt - 2)]
ImportTransaction(rows, hist, validRows, user, at, failAt) ==
  IF failAt = 0 /\ InsertBuyersOk(validRows)
  THEN [ok |-> TRUE,
        buyers |-> rows \cup {NewRow(validRows[j], 0, at) : j \in 1..Len(validRows)},
        history |-> hist \o ImportEntries(validRows, user, at)]
  ELSE [ok |-> FALSE, buyers |-> rows, history |-> hist]

\* the response reports success for every import that inserted a row
ImportDone_SuccessIfImported(q, resp, wrote) ==
  [pc |-> "done", kind |-> "IMPORT", seen |-> [NoSeen EXCEPT !.auth = q.user \in Users],
   resp |-> resp, wrote |-> wrote,
   success |-> Len(q.validRows) > 0,
   imported |-> Len(q.validRows),
   totalCount |-> Len(q.rows), validCount |-> Len(q.validRows),
   errors |-> SubSeq(q.errors, 1, IF Len(q.errors) < ErrorCap THEN Len(q.errors) ELSE ErrorCap),
   hasMoreErrors |-> Len(q.errors) > ErrorCap,
   failed |-> Len(q.errors),
   malformed |-> {j \in 1..Len(q.rows) : ~csvBuyerSchemaOk(transformedRow(q.rows[j]))},
   fault |-> FALSE]
\* the answer of an import: the status, and for 200 and 207 the fields of the response
\* (success, imported, validCount, totalCount, errors, hasMoreErrors); `failed` is
\* the number of rows that the loop rejected, `malformed` the data rows of the file,
\* counted from 1, that do not pass csvBuyerSchema, `fault` whether the store failed
\* a statement of the transaction for a reason of its own
ImportDone(q, resp, wrote) ==
  [pc |-> "done", kind |-> "IMPORT", seen |-> [NoSeen EXCEPT !.auth = q.user \in Users],
   resp |-> resp, wrote |-> wrote,
   success |-> Len(q.errors) = 0,
   imported |-> Len(q.validRows),
   totalCount |-> Len(q.rows), validCount |-> Len(q.validRows),
   errors |-> SubSeq(q.errors, 1, IF Len(q.errors) < ErrorCap THEN Len(q.errors) ELSE ErrorCap),
   hasMoreErrors |-> Len(q.errors) > ErrorCap,
   failed |-> Len(q.errors),
   malformed |-> {j \in 1..Len(q.rows) : ~csvBuyerSchemaOk(transformedRow(q.rows[j]))},
   fault |-> FALSE]

\* after the loop: the transaction is issued when a row is valid, else the response
AfterRow(q) ==
  IF q.i <= Len(q.rows) THEN q
  ELSE IF Len(q.validRows) > 0 THEN [q EXCEPT !.pc = "imp_tx"]
  ELSE ImportDone(q, IF Len(q.errors) = 0 THEN 200 ELSE 207, FALSE)

\* the size check left out
TooLarge_Off(rows) == FALSE
\* rows.length > 200
TooLarge(rows) == Len(rows) > CsvMaxRows

\* session check, parse, size checks and the loop up to its first awaited query
POST_Import_Parse(r, user, rows) ==
  /\ CanStart(r)
  /\ ops' = ops + 1
  /\ UNCHANGED <<buyers, history, now>>
  /\ LET q == [pc |-> "imp_row", kind |-> "IMPORT", user |-> user, rows |-> rows, i |-> 1,
               validRows |-> <<>>, errors |-> <<>>, seenPhones |-> {}, seenEmails |-> {}]
         reply(resp) ==
           /\ req' = [req EXCEPT ![r] = ImportDone(q, resp, FALSE)]
           /\ UNCHANGED nextId
     IN IF ~Authenticated(user) THEN reply(401)
        ELSE IF Len(rows) = 0 THEN reply(400)
        ELSE IF TooLarge(rows) THEN reply(400)
        ELSE /\ req' = [req EXCEPT ![r] = AfterRow(LoopStep(q))]
             /\ nextId' = nextId + Len(LoopStep(q).validRows)

\* the loop from the answer of one awaited query to the next
POST_Import_Row(r) ==
  /\ req[r].pc = "imp_row"
  /\ UNCHANGED <<buyers, history, now, ops>>
  /\ LET q == LoopStep(req[r])
     IN /\ req' = [req EXCEPT ![r] = AfterRow(q)]
        /\ nextId' = nextId + (Len(q.validRows) - Len(req[r].validRows))

\* db.transaction runs; a failure is rethrown and answered with 500
POST_Import_Transaction(r, failAt) ==
  /\ req[r].pc = "imp_tx"
  /\ failAt <= 1 + Len(req[r].validRows)
  /\ UNCHANGED <<now, nextId, ops>>
  /\ LET q == req[r]
         res == ImportTransaction(buyers, history, q.validRows, q.user, now, failAt)
     IN /\ buyers' = res.buyers
        /\ history' = res.history
        /\ req' = [req EXCEPT ![r] =
                IF res.ok THEN ImportDone(q, IF Len(q.errors) = 0 THEN 200 ELSE 207, TRUE)
                ELSE [ImportDone(q, 500, FALSE) EXCEPT !.fault = failAt # 0]]

(***************************************************************************)
(* The clock, the seeded store and the next-state relation.                *)
(***************************************************************************)
Tick ==
  /\ now < MaxTime
  /\ now' = now + 1
  /\ UNCHANGED <<buyers, history, nextId, ops, req>>

\* seed.ts: the demo user's sample buyer; the seed writes no history
SeedBuyer ==
  [id |-> 1, ownerId |-> "u1", phone |-> P1, email |-> ELower, status |-> "New",
   notes |-> "call back", tags |-> <<"urgent">>, updatedAt |-> 0]

Init ==
  /\ buyers = {SeedBuyer}
  /\ history = <<>>
  /\ now = 0
  /\ nextId = 2
  /\ ops = 0
  /\ req = [r \in Slots |-> Idle]

Callers == Users \cup {Anon}
PathIds == {b.id : b \in buyers} \cup {MissingId}

\* a request arrives in a free slot, or the statement that a request in flight
\* waits for runs
Next ==
  \/ Tick
  \/ \E r \in Slots : CanStart(r) /\ \E user \in Callers, id \in PathIds :
       \E body \in PutBodies(id) : PUT_Select(r, user, id, body)
  \/ \E r \in Slots : CanStart(r) /\ \E user \in Callers, id \in PathIds :
       \E newStatus \in statusEnum : updateStatus(r, user, id, newStatus)
  \/ \E r \in Slots : CanStart(r) /\ \E user \in Callers, id \in PathIds :
       DELETE_Select(r, user, id)
  \/ \E r \in Slots : CanStart(r) /\ \E user \in Callers, body \in CreateBodies :
       \E fails \in BOOLEAN : POST_Insert(r, user, body, fails)
  \/ \E r \in Slots : CanStart(r) /\ \E user \in Callers, rows \in CsvFiles :
       POST_Import_Parse(r, user, rows)
  \/ \E r \in Slots, fails \in BOOLEAN : PUT_Update(r, fails)
  \/ \E r \in Slots, fails \in BOOLEAN : PUT_InsertHistory(r, fails)
  \/ \E r \in Slots, fails \in BOOLEAN : DELETE_Delete(r, fails)
  \/ \E r \in Slots, fails \in BOOLEAN : POST_InsertHistory(r, fails)
  \/ \E r \in Slots : POST_Import_Row(r)
  \/ \E r \in Slots, failAt \in 0..(MaxRows + 1) : POST_Import_Transaction(r, failAt)

Spec == Init /\ [][Next]_vars

(***************************************************************************)
(* GET /api/buyers (list) and GET /api/buyers/export.  The filters on      *)
(* city, propertyType and timeline are equality filters on an enum column  *)
(* like the one on status; fullName is searched like email and phone.      *)
(***************************************************************************)
\* the lower-case search words of the model that occur in a lower-case text
Fragments(text) ==
  IF text = ELower THEN {"rajesh"}
  ELSE IF text = P1 THEN {"98765"}
  ELSE IF text = P2 THEN {"98765", "9876543211"}
  ELSE {}

\* text contains q, case ignored
Substring(text, q) == text # Null /\ toLowerCase(q) \in Fragments(toLowerCase(text))

\* ilike(column, `%${q}%`): q is spliced into the pattern as it is, and the
\* underscore of a pattern stands for any one character
ilike(column, q) ==
  /\ column # Null
  /\ IF q = "_" THEN column # "" ELSE Substring(column, q)

Queries == {"", "RAJESH", "98765", "_"}
SearchParams ==
  [query : Queries, status : {Null, "New", BadStatus},
   page : 0..2, limit : {1, 2, 51}, sortOrder : {"asc", "desc"}]

\* searchSchema: status of the enum when given, page a positive integer, limit a
\* positive integer of at most 50
searchSchemaOk(p) ==
  /\ p.status # Null => p.status \in statusEnum
  /\ p.page > 0
  /\ p.limit > 0 /\ p.limit <= 50

\* the where clause of the list
ListWhere(b, p) ==
  /\ p.query # "" => (ilike(b.email, p.query) \/ ilike(b.phone, p.query))
  /\ p.status # Null => b.status = p.status

\* the conditions of the export: the rows of the caller, and the query
ExportWhere(b, p, user) ==
  /\ b.ownerId = user
  /\ p.query # "" => (ilike(b.email, p.query) \/ ilike(b.phone, p.query))

\* ORDER BY updated_at: every order of the rows that the sort key allows
RECURSIVE OrderBy(_, _)
OrderBy(rows, sortOrder) ==
  IF rows = {} THEN {<<>>}
  ELSE LET first == {b \in rows : \A c \in rows :
                       IF sortOrder = "asc" THEN b.updatedAt <= c.updatedAt
                       ELSE b.updatedAt >= c.updatedAt}
       IN UNION {{<<b>> \o t : t \in OrderBy(rows \ {b}, sortOrder)} : b \in first}

\* LIMIT n OFFSET k
LimitOffset(seq, n, k) ==
  IF k >= Len(seq) THEN <<>>
  ELSE SubSeq(seq, k + 1, IF k + n < Len(seq) THEN k + n ELSE Len(seq))

\* Math.ceil(total / limit)
MathCeil(total, limit) == (total + limit - 1) \div limit

\* session check, searchSchema.parse, and the count statement
LIST_Count(r, user, p) ==
  /\ CanStart(r)
  /\ ops' = ops + 1
  /\ UNCHANGED <<buyers, history, now, nextId>>
  /\ LET seen == [NoSeen EXCEPT !.auth = user \in Users, !.valid = searchSchemaOk(p)]
         reply(resp) == req' = [req EXCEPT ![r] = Done("LIST", seen, resp, FALSE)]
     IN IF ~Authenticated(user) THEN reply(401)
        ELSE IF ~searchSchemaOk(p) THEN reply(400)
        ELSE req' = [req EXCEPT ![r] =
               [pc |-> "list_select", kind |-> "LIST", seen |-> seen, params |-> p,
                total |-> Cardinality({b \in buyers : ListWhere(b, p)})]]

\* the statement of the page, and the response
LIST_Select(r) ==
  /\ req[r].pc = "list_select"
  /\ UNCHANGED <<buyers, history, now, nextId, ops>>
  /\ LET q == req[r]
         p == q.params
     IN \E sorted \in OrderBy({b \in buyers : ListWhere(b, p)}, p.sortOrder) :
          req' = [req EXCEPT ![r] =
            [pc |-> "done", kind |-> "LIST", seen |-> q.seen, resp |-> 200,
             wrote |-> FALSE,
             data |-> LimitOffset(sorted, p.limit, (p.page - 1) * p.limit),
             pagination |-> [page |-> p.page, limit |-> p.limit, total |-> q.total,
                             pages |-> MathCeil(q.total, p.limit)]]]

\* the export: session check and one statement; the CSV has one line per selected
\* row, after the header line
EXPORT(r, user, p) ==
  /\ CanStart(r)
  /\ ops' = ops + 1
  /\ UNCHANGED <<buyers, history, now, nextId>>
  /\ LET seen == [NoSeen EXCEPT !.auth = user \in Users, !.valid = searchSchemaOk(p)]
     IN IF ~Authenticated(user)
        THEN req' = [req EXCEPT ![r] = Done("EXPORT", seen, 401, FALSE)]
        ELSE req' = [req EXCEPT ![r] =
               [pc |-> "done", kind |-> "EXPORT", seen |-> seen, resp |-> 200,
                wrote |-> FALSE, params |-> p,
                buyersData |-> {b \in buyers : ExportWhere(b, p, user)}]]

\* buyers of two users, as creates, imports and updates leave them
SearchRows ==
  {SeedBuyer,
   [id |-> 2, ownerId |-> "u1", phone |-> P2, email |-> Null, status |-> "Qualified",
    notes |-> Null, tags |-> <<>>, updatedAt |-> 1],
   [id |-> 3, ownerId |-> "u2", phone |-> P2, email |-> EUpper, status |-> "New",
    notes |-> Null, tags |-> <<>>, updatedAt |-> 1],
   [id |-> 4, ownerId |-> "u2", phone |-> P1, email |-> "", status |-> "Qualified",
    notes |-> "", tags |-> <<>>, updatedAt |-> 0]}

InitSearch ==
  /\ buyers \in SUBSET SearchRows
  /\ history = <<>>
  /\ now = 1
  /\ nextId = 5
  /\ ops = 0
  /\ req = [r \in Slots |-> Idle]

\* list and export requests, next to the delete requests of the owners
NextSearch ==
  \/ \E r \in Slots : CanStart(r) /\ \E user \in Callers, p \in SearchParams :
       LIST_Count(r, user, p)
  \/ \E r \in Slots : LIST_Select(r)
  \/ \E r \in Slots : CanStart(r) /\ \E user \in Callers, p \in SearchParams :
       EXPORT(r, user, p)
  \/ \E r \in Slots : CanStart(r) /\ \E user \in Callers, id \in PathIds :
       DELETE_Select(r, user, id)
  \/ \E r \in Slots, fails \in BOOLEAN : DELETE_Delete(r, fails)

SpecSearch == InitSearch /\ [][NextSearch]_vars

(***************************************************************************)
(* GET /api/buyers/[id]: the buyer with its latest history entries.  The   *)
(* detail page (getBuyerWithHistory) issues the same two statements.       *)
(***************************************************************************)
HistoryLimit == 5

\* the selected columns of the history row at position i; the position stands for
\* the id of the row
HistoryRow(hist, i) ==
  [id |-> i, changedAt |-> hist[i].changedAt, diff |-> hist[i].diff,
   changedBy |-> hist[i].changedBy]

\* the rows are returned oldest first
RECURSIVE OrderByAsc(_, _)
OrderByAsc(hist, rows) ==
  IF rows = {} THEN {<<>>}
  ELSE LET first == {i \in rows : \A j \in rows : hist[i].changedAt <= hist[j].changedAt}
       IN UNION {{<<HistoryRow(hist, i)>> \o t : t \in OrderByAsc(hist, rows \ {i})} :
                 i \in first}

\* ORDER BY changed_at DESC: every order of the rows that the sort key allows
RECURSIVE OrderByDesc(_, _)
OrderByDesc(hist, rows) ==
  IF rows = {} THEN {<<>>}
  ELSE LET first == {i \in rows : \A j \in rows : hist[i].changedAt >= hist[j].changedAt}
       IN UNION {{<<HistoryRow(hist, i)>> \o t : t \in OrderByDesc(hist, rows \ {i})} :
                 i \in first}

\* session check and the SELECT of the buyer
GET_Select(r, user, id) ==
  /\ CanStart(r)
  /\ ops' = ops + 1
  /\ UNCHANGED <<buyers, history, now, nextId>>
  /\ LET seen == Seen(user, id, TRUE, [t |-> 0, fmt |-> "bad"])
         reply(resp) == req' = [req EXCEPT ![r] = Done("GET", seen, resp, FALSE)]
         hit == RowsWithId(buyers, id)
     IN IF ~Authenticated(user) THEN reply(401)
        ELSE IF hit = {} THEN reply(404)
        ELSE req' = [req EXCEPT ![r] =
               [pc |-> "get_hist", kind |-> "GET", seen |-> seen, id |-> id,
                buyer |-> CHOOSE b \in hit : TRUE]]

\* the SELECT of the history with .limit(5), and the response
GET_History(r) ==
  /\ req[r].pc = "get_hist"
  /\ UNCHANGED <<buyers, history, now, nextId, ops>>
  /\ LET q == req[r]
         rows == {i \in 1..Len(history) : history[i].buyerId = q.id}
     IN \E sorted \in OrderByDesc(history, rows) :
          req' = [req EXCEPT ![r] =
            [pc |-> "done", kind |-> "GET", seen |-> q.seen, resp |-> 200,
             wrote |-> FALSE, buyer |-> q.buyer,
             history |-> LimitOffset(sorted, HistoryLimit, 0)]]

\* the histories of the seeded buyer: up to MaxEntries entries in the order of their
\* insertion, which is the order of their changedAt or, for clocks that disagree, the
\* reverse of it, and before them possibly an entry of another buyer
HistoryEntry(id, at) ==
  [buyerId |-> id, changedBy |-> "u1", changedAt |-> at,
   diff |-> [tags |-> [from |-> <<>>, to |-> <<>>]]]
Monotone(f, n) ==
  \/ \A i \in 1..(n - 1) : f[i] <= f[i + 1]
  \/ \A i \in 1..(n - 1) : f[i] >= f[i + 1]
HistoryLogs ==
  LET own == UNION {{[i \in 1..n |-> HistoryEntry(1, f[i])] :
                       f \in {g \in [1..n -> 0..MaxStamp] : Monotone(g, n)}} :
                    n \in 0..MaxEntries}
  IN own \cup {<<HistoryEntry(2, MaxStamp)>> \o h : h \in own}

InitHistory ==
  /\ buyers = {SeedBuyer, [BlankRow(2) EXCEPT !.ownerId = "u2"]}
  /\ history \in HistoryLogs
  /\ now = MaxStamp
  /\ nextId = 3
  /\ ops = 0
  /\ req = [r \in Slots |-> Idle]

\* no fetch has been started: the fetches write nothing, and one of them is
\* followed next to the other requests
NoFetchYet == \A q \in Slots : IF req[q].pc = "idle" THEN TRUE ELSE req[q].kind # "GET"

\* the fetch of a buyer, next to the delete requests of the owners
NextHistory ==
  \/ \E r \in Slots : CanStart(r) /\ NoFetchYet /\ \E user \in Callers, id \in PathIds :
       GET_Select(r, user, id)
  \/ \E r \in Slots : GET_History(r)
  \/ \E r \in Slots : CanStart(r) /\ \E user \in Callers, id \in PathIds :
       DELETE_Select(r, user, id)
  \/ \E r \in Slots, fails \in BOOLEAN : DELETE_Delete(r, fails)

SpecHistory == InitHistory /\ [][NextHistory]_vars

(***************************************************************************)
(* The refinements of the validation schemas (lib/validations.ts):         *)
(* buyerSchema (= createBuyerSchema), updateBuyerSchema and csvBuyerSchema *)
(* on the columns propertyType, bhk, budgetMin and budgetMax, next to the  *)
(* phone.  A schema is the set of the paths of the issues that safeParse   *)
(* reports for a record; the empty set is success.                         *)
(***************************************************************************)
propertyTypeEnum == {"Apartment", "Villa", "Plot", "Office", "Retail"}
bhkEnum == {"1", "2", "3", "4", "Studio"}

\* an integral JS number
Num(n) == [whole |-> n, tenths |-> 0]
\* n > 0 and a < b on numbers
Positive(n) == n.whole > 0 \/ (n.whole = 0 /\ n.tenths > 0)
LessThan(a, b) == a.whole < b.whole \/ (a.whole = b.whole /\ a.tenths < b.tenths)
\* the truth value of data[k]: undefined, '' and 0 are falsy
Truthy(data, k) ==
  IF ~Has(data, k) THEN FALSE
  ELSE IF k = "bhk" THEN data[k] # ""
  ELSE data[k] # Num(0)

\* the refinement left out: bhk is required for no property type
RefineBhk_Off(data) == TRUE
\* .refine: false when ['Apartment', 'Villa'].includes(data.propertyType) && !data.bhk
RefineBhk(data) == ~(data.propertyType \in {"Apartment", "Villa"} /\ ~Truthy(data, "bhk"))

\* the refinement left out: the budgets are not compared
RefineBudget_Off(data) == TRUE
\* .refine: false when data.budgetMin && data.budgetMax && data.budgetMax < data.budgetMin
RefineBudget(data) ==
  ~(/\ Truthy(data, "budgetMin")
    /\ Truthy(data, "budgetMax")
    /\ LessThan(data.budgetMax, data.budgetMin))

\* the issues of the two refinements, with their paths
Refinements(data) ==
  (IF RefineBhk(data) THEN {} ELSE {"bhk"})
    \cup (IF RefineBudget(data) THEN {} ELSE {"budgetMax"})

\* z.number().int().positive().optional()
BudgetOk(data, k) == Has(data, k) => (IsInteger(data[k]) /\ Positive(data[k]))

\* the issues of the z.object of buyerSchema and updateBuyerSchema, by path
ObjectIssues(data) ==
  {k \in {"phone", "propertyType", "bhk", "budgetMin", "budgetMax"} :
     IF k = "phone" THEN ~PhoneOk(data.phone)
     ELSE IF k = "propertyType" THEN data.propertyType \notin propertyTypeEnum
     ELSE IF k = "bhk" THEN Has(data, "bhk") /\ data.bhk \notin bhkEnum
     ELSE ~BudgetOk(data, k)}

\* the issues of the z.object of csvBuyerSchema: bhk may be '', which becomes
\* undefined, and the budgets are z.number(): every number passes
CsvObjectIssues(data) ==
  {k \in {"phone", "propertyType", "bhk"} :
     IF k = "phone" THEN ~PhoneOk(data.phone)
     ELSE IF k = "propertyType" THEN data.propertyType \notin propertyTypeEnum
     ELSE Has(data, "bhk") /\ data.bhk \notin bhkEnum \cup {""}}

\* a value of the wrong type or outside its enum aborts the parse of the object, and
\* the refinements do not run; a failed check of a string or a number does not
Aborts(issues) == issues \cap {"id", "updatedAt", "propertyType", "bhk"} # {}

buyerSchemaIssues(data) ==
  LET base == ObjectIssues(data)
  IN IF Aborts(base) THEN base ELSE base \cup Refinements(data)

updateBuyerSchemaIssues(data) ==
  LET base == ObjectIssues(data)
                \cup {k \in {"id"} : ~Has(data, k) \/ ~IsUuid(data[k])}
                \cup {k \in {"updatedAt"} : ~Has(data, k) \/ ~IsDatetime(data[k])}
  IN IF Aborts(base) THEN base ELSE base \cup Refinements(data)

csvBuyerSchemaIssues(data) ==
  LET base == CsvObjectIssues(data)
  IN IF Aborts(base) THEN base ELSE base \cup Refinements(data)

Schemas == {"buyerSchema", "updateBuyerSchema", "csvBuyerSchema"}
safeParse(schema, data) ==
  IF schema = "buyerSchema" THEN buyerSchemaIssues(data)
  ELSE IF schema = "updateBuyerSchema" THEN updateBuyerSchemaIssues(data)
  ELSE csvBuyerSchemaIssues(data)

\* the valid buyer of the schema tests, and the records that differ from it in at
\* most MaxChanges keys
ValidBuyer ==
  [id |-> 1, phone |-> P1, propertyType |-> "Apartment", bhk |-> "3",
   budgetMin |-> Num(1), budgetMax |-> Num(2), updatedAt |-> toISOString(0)]

Budgets == {Num(-1), Num(0), Num(1), Num(2), Num(3), FractionalBudget}

OneChange(x) ==
  {Set(x, "phone", BadPhone)}
    \cup {Set(x, "propertyType", v) : v \in propertyTypeEnum \cup {"Bungalow"}}
    \cup {Set(x, "bhk", v) : v \in bhkEnum \cup {"", "5"}}
    \cup {Set(x, k, v) : k \in {"budgetMin", "budgetMax"}, v \in Budgets}
    \cup {Drop(x, k) : k \in {"bhk", "budgetMin", "budgetMax"}}

RECURSIVE Changed(_, _)
Changed(x, n) ==
  IF n = 0 THEN {x}
  ELSE LET prev == Changed(x, n - 1)
       IN prev \cup UNION {OneChange(y) : y \in prev}

Records == Changed(ValidBuyer, MaxChanges)

\* schema.safeParse(data)
SafeParse(r, schema, data) ==
  /\ CanStart(r)
  /\ ops' = ops + 1
  /\ UNCHANGED <<buyers, history, now, nextId>>
  /\ req' = [req EXCEPT ![r] =
          [pc |-> "done", kind |-> "PARSE", schema |-> schema, data |-> data,
           issues |-> safeParse(schema, data)]]

NextValidation ==
  \E r \in Slots : CanStart(r) /\ \E schema \in Schemas, data \in Records :
    SafeParse(r, schema, data)

SpecValidation == Init /\ [][NextValidation]_vars

(***************************************************************************)
(* The rate-limit step of POST /api/buyers and PUT /api/buyers/[id]        *)
(* (lib/rateLimit), for the requests that signed-in clients send within    *)
(* one minute.  Slot r stands for a client; `passed` counts, per limit     *)
(* type, the requests of the client that the check has let through.        *)
(***************************************************************************)
CreateLimit == 10
UpdateLimit == 20

\* limits[RATE_LIMITS[limitType]].limit
limits(limitType) == IF limitType = "CREATE_BUYER" THEN CreateLimit ELSE UpdateLimit

NonePassed == [CREATE_BUYER |-> 0, UPDATE_BUYER |-> 0]

\* await check(request, limitType), and the 429 of the handler when it fails; a
\* client goes on until it is one request past the limit
RateLimitStep(r, limitType) ==
  /\ UNCHANGED <<buyers, history, now, nextId, ops>>
  /\ LET passed == IF req[r].pc = "idle" THEN NonePassed ELSE req[r].passed
         rateLimit == check(limitType)
     IN /\ passed[limitType] <= limits(limitType)
        /\ req' = [req EXCEPT ![r] =
                [pc |-> "done", kind |-> "RATE", limitType |-> limitType,
                 resp |-> IF rateLimit.success THEN 200 ELSE 429,
                 passed |-> IF rateLimit.success
                            THEN [passed EXCEPT ![limitType] = @ + 1]
                            ELSE passed]]

NextRateLimit ==
  \E r \in Slots, limitType \in {"CREATE_BUYER", "UPDATE_BUYER"} :
    RateLimitStep(r, limitType)

SpecRateLimit == Init /\ [][NextRateLimit]_vars

(***************************************************************************)
(* The sliding-window RateLimiter.  Slot r stands for an identifier: the   *)
(* field `requests` of req[r] is the entry of this.requests for it, and    *)
(* `successes` the times of all its calls that were answered with success. *)
(* An identifier is checked with one limit, and every call has the         *)
(* interval Interval, as the entries of RATE_LIMITS have one interval.     *)
(***************************************************************************)
Limits == {1, 2}

\* requests.filter(time => time > cutoff)
Filter(requests, cutoff) == SelectSeq(requests, LAMBDA time : time > cutoff)

\* this.requests.get(identifier) || []
Entry(r) == IF req[r].pc = "idle" THEN <<>> ELSE req[r].requests

\* the call is let through while the window holds the limit already
Allowed_AtLimit(requestsInWindow, limit) == Len(requestsInWindow) <= limit
\* requestsInWindow.length < limit
Allowed(requestsInWindow, limit) == Len(requestsInWindow) < limit

\* cleanup(): every entry loses the requests of an hour ago or before; an entry left
\* empty is deleted, and reads as [] again
cleanup(requests) == Filter(requests, now - CleanupAge)

\* rateLimiter.check(request, limit, config) for the identifier r; `cleans` is the
\* outcome of Math.random() < 0.01
RateLimiter_check(r, limit, cleans) ==
  /\ UNCHANGED <<buyers, history, now, nextId, ops>>
  /\ IF req[r].pc = "idle" THEN TRUE
     ELSE req[r].calls < MaxCalls /\ limit = req[r].limit
  /\ LET windowStart == now - Interval
         requests == Entry(r)
         requestsInWindow == Filter(requests, windowStart)
         success == Allowed(requestsInWindow, limit)
         pushed == IF success THEN Append(requestsInWindow, now) ELSE requestsInWindow
         stored == IF success THEN pushed ELSE requests
         swept(list) == IF cleans THEN cleanup(list) ELSE list
     IN req' = [q \in Slots |->
                 IF q = r
                 THEN [pc |-> "done", kind |-> "CHECK", limit |-> limit,
                       requests |-> swept(stored),
                       successes |-> IF req[r].pc = "idle"
                                     THEN (IF success THEN <<now>> ELSE <<>>)
                                     ELSE IF success THEN Append(req[r].successes, now)
                                     ELSE req[r].successes,
                       calls |-> IF req[r].pc = "idle" THEN 1 ELSE req[r].calls + 1,
                       success |-> success,
                       remaining |-> IF limit - Len(pushed) > 0
                                     THEN limit - Len(pushed) ELSE 0]
                 ELSE IF req[q].pc = "idle" THEN req[q]
                 ELSE [req[q] EXCEPT !.requests = swept(@)]]

\* Date.now() advances
Advance ==
  /\ now < MaxClock
  /\ now' = now + 1
  /\ UNCHANGED <<buyers, history, nextId, ops, req>>

NextRateLimiter ==
  \/ Advance
  \/ \E r \in Slots, limit \in Limits, cleans \in BOOLEAN : RateLimiter_check(r, limit, cleans)

SpecRateLimiter == Init /\ [][NextRateLimiter]_vars

(***************************************************************************)
(* authOptions.callbacks.redirect (lib/auth.ts).  A URL text is modelled   *)
(* by its parts: `origin` is "base" for a text that starts with baseUrl,   *)
(* "none" for a text that starts with '/', "other" for a text with another *)
(* origin; `path` is the sequence of its path segments as written; `query` *)
(* is <<>> or <<cb>> for the query ?callbackUrl=cb, where cb.path is the   *)
(* value of the parameter and cb.encoded says whether its slashes are      *)
(* written as %2F.                                                         *)
(***************************************************************************)
SignIn == <<"auth", "signin">>             \* pages.signIn: "/auth/signin"
EmailCallback == <<"api", "auth", "callback", "email">>
Buyers == <<"buyers">>

\* text.includes(words) on the segments of a path
Includes(path, words) ==
  \E i \in 0..(Len(path) - Len(words)) : SubSeq(path, i + 1, i + Len(words)) = words

\* url.includes('/auth/signin'): in the path, or in the value of the parameter when
\* its slashes are written as they are
UrlIncludes(url, words) ==
  \/ Includes(url.path, words)
  \/ \E k \in 1..Len(url.query) :
       ~url.query[k].encoded /\ Includes(url.query[k].path, words)

\* url.includes('/auth/signin?callbackUrl='): the path ends with the words and the
\* query follows
IncludesSignInWithCallback(url) ==
  /\ Len(url.query) > 0
  /\ Len(url.path) >= Len(SignIn)
  /\ SubSeq(url.path, Len(url.path) - Len(SignIn) + 1, Len(url.path)) = SignIn

\* new URL(url, baseUrl).searchParams.get('callbackUrl'): the decoded value, <<>>
\* standing for null
SearchParamsGet(url) == IF Len(url.query) = 0 THEN <<>> ELSE <<url.query[1].path>>

\* `${baseUrl}${path}`
OnBase(path, query) == [origin |-> "base", path |-> path, query |-> query]

\* redirect({ url, baseUrl })
Redirect(url) ==
  IF IncludesSignInWithCallback(url) THEN OnBase(Buyers, <<>>)
  ELSE LET callbackUrl == SearchParamsGet(url)
       IN IF callbackUrl # <<>> /\ ~Includes(callbackUrl[1], SignIn)
          THEN OnBase(callbackUrl[1], <<>>)
          ELSE IF UrlIncludes(url, EmailCallback) THEN OnBase(Buyers, <<>>)
          ELSE IF url.origin = "base" /\ ~UrlIncludes(url, SignIn) THEN url
          ELSE IF url.origin = "none" /\ ~UrlIncludes(url, SignIn)
          THEN OnBase(url.path, url.query)
          ELSE OnBase(Buyers, <<>>)

\* the page that a browser requests for a path: the segments "." are removed
Resolve(path) == SelectSeq(path, LAMBDA seg : seg # ".")

Paths ==
  {<<>>, Buyers, <<"buyers", "new">>, SignIn, <<"auth", ".", "signin">>,
   <<"auth", "verify-request">>, EmailCallback}
Urls ==
  [origin : {"base", "none", "other"}, path : Paths,
   query : {<<>>} \cup {<<cb>> : cb \in [path : Paths, encoded : BOOLEAN]}]

\* the callback is called with url
REDIRECT(r, url) ==
  /\ CanStart(r)
  /\ ops' = ops + 1
  /\ UNCHANGED <<buyers, history, now, nextId>>
  /\ req' = [req EXCEPT ![r] =
          [pc |-> "done", kind |-> "REDIRECT", url |-> url, result |-> Redirect(url)]]

NextRedirect ==
  \E r \in Slots : CanStart(r) /\ \E url \in Urls : REDIRECT(r, url)

SpecRedirect == Init /\ [][NextRedirect]_vars

(***************************************************************************)
(* The tag editor: TagInput, and addTag / removeTag of the buyer forms,    *)
(* which are those of TagInput on the state of the page.  Slot r stands    *)
(* for a mounted editor: `tags` is its value, `inputValue` the text of its *)
(* input and `suggestions` its list of suggestions.                        *)
(***************************************************************************)
Blank == " "

\* String.prototype.trim on the texts of the model
trim(text) ==
  IF text = Blank THEN ""
  ELSE IF text = " urgent " THEN "urgent"
  ELSE text

\* suggestion.toLowerCase().includes(inputValue.toLowerCase()) on the texts of the
\* model, none of which is a proper part of another but the empty text and, of the
\* padded " urgent ", the texts "urgent" and " "
TextIncludes(text, part) ==
  \/ part = ""
  \/ part = text
  \/ text = " urgent " /\ part \in {"urgent", Blank}

InSeq(seq, x) == \E i \in 1..Len(seq) : seq[i] = x

TagTexts == {"urgent", "vip"}
Typed == {"", Blank, "urgent", " urgent ", "vip"}
SuggestionLists == {<<>>, <<"vip", "urgent">>, <<"vip", Blank>>}

\* the tags of a stored buyer that has some: the lists of TagTexts without
\* duplicates; the empty list is what is left when they are removed
InitialTags ==
  {t \in SeqsUpTo(TagTexts, 2) : t # <<>> /\ \A i, j \in 1..Len(t) : t[i] = t[j] => i = j}

\* the editor is mounted with a value and a list of suggestions
Mount(r, tags, suggestions) ==
  /\ CanStart(r)
  /\ ops' = ops + 1
  /\ UNCHANGED <<buyers, history, now, nextId>>
  /\ req' = [req EXCEPT ![r] =
          [pc |-> "edit", kind |-> "TAGS", tags |-> tags, inputValue |-> "",
           suggestions |-> suggestions]]

Mounted(r) == req[r].pc = "edit"

\* onChange of the input: setInputValue(e.target.value)
setInputValue(r, text) ==
  /\ Mounted(r)
  /\ text # req[r].inputValue
  /\ UNCHANGED <<buyers, history, now, nextId, ops>>
  /\ req' = [req EXCEPT ![r].inputValue = text]

\* inputValue.trim() is truthy
NotEmpty(text) == trim(text) # ""

\* addTag, by the button Add or the key Enter
addTag(r) ==
  /\ Mounted(r)
  /\ UNCHANGED <<buyers, history, now, nextId, ops>>
  /\ LET q == req[r]
     IN /\ NotEmpty(q.inputValue) /\ ~InSeq(q.tags, trim(q.inputValue))
        /\ req' = [req EXCEPT ![r].tags = Append(q.tags, trim(q.inputValue)),
                              ![r].inputValue = ""]

\* removeTag(tagToRemove), by the button of a shown tag
removeTag(r, tagToRemove) ==
  /\ Mounted(r)
  /\ InSeq(req[r].tags, tagToRemove)
  /\ UNCHANGED <<buyers, history, now, nextId, ops>>
  /\ req' = [req EXCEPT ![r].tags = SelectSeq(@, LAMBDA tag : tag # tagToRemove)]

\* the suggestions that the popover lists
filteredSuggestions(q) ==
  SelectSeq(q.suggestions,
            LAMBDA suggestion : /\ ~InSeq(q.tags, suggestion)
                                /\ TextIncludes(suggestion, q.inputValue))

\* onSelect of a listed suggestion; the popover is opened by the input or by a click
\* on its trigger
onSelect(r, suggestion) ==
  /\ Mounted(r)
  /\ InSeq(filteredSuggestions(req[r]), suggestion)
  /\ UNCHANGED <<buyers, history, now, nextId, ops>>
  /\ req' = [req EXCEPT ![r].tags = Append(req[r].tags, suggestion),
                        ![r].inputValue = ""]

NextTags ==
  \/ \E r \in Slots : CanStart(r) /\ \E tags \in InitialTags, suggestions \in SuggestionLists :
       Mount(r, tags, suggestions)
  \/ \E r \in Slots, text \in Typed : setInputValue(r, text)
  \/ \E r \in Slots : addTag(r)
  \/ \E r \in Slots, tag \in TagTexts \cup {Blank} : removeTag(r, tag)
  \/ \E r \in Slots, suggestion \in TagTexts \cup {Blank} : onSelect(r, suggestion)

SpecTags == Init /\ [][NextTags]_vars

(***************************************************************************)
(* Properties.                                                             *)
(***************************************************************************)
\* the request in slot r is answered in this step
Answers(r) ==
  /\ req'[r].pc = "done"
  /\ \/ ~Free(r)
     \/ ops' = ops + 1 /\ CanStart(r)

StoreUnchanged == buyers' = buyers /\ history' = history

\* C1: a PUT for an existing buyer by its owner with a valid body whose updatedAt
\* token is not the text of the stored updatedAt is answered 409, and the buyers
\* and the history are as before the request.
C1_StaleTokenConflict ==
  [][\A r \in Slots :
       (/\ Answers(r)
        /\ req'[r].kind = "PUT"
        /\ req'[r].seen.auth /\ req'[r].seen.valid
        /\ req'[r].seen.exists /\ req'[r].seen.owner
        /\ ~req'[r].seen.fresh)
       => (req'[r].resp = 409 /\ ~req'[r].wrote /\ StoreUnchanged)]_vars

C1_Witness ==
  \E r \in Slots :
    /\ req[r].pc = "done" /\ req[r].kind = "PUT"
    /\ req[r].seen.valid /\ req[r].seen.exists /\ req[r].seen.owner
    /\ ~req[r].seen.fresh
    /\ req[r].resp = 409

\* C2: the token compare and the write of an update are one atomic step: the UPDATE
\* of a request changes the store only while the stored updatedAt is still the one
\* whose text the request carries as its token, so that of two requests that carry
\* the same stored token only the first to write is applied.
C2_CompareAndWriteAtomic ==
  [][\A r \in Slots :
       (req[r].pc = "put_update" /\ req'[r].pc # "put_update" /\ buyers' # buyers)
       => \E b \in RowsWithId(buyers, req[r].id) :
            [t |-> b.updatedAt, fmt |-> "ms"] = req[r].validatedData.updatedAt]_vars

\* C3 as stated: a PUT or DELETE for an existing buyer by a signed-in user who is not
\* its owner is answered 403 and changes neither the buyers nor the history.
C3_NonOwnerForbidden_Original ==
  [][\A r \in Slots :
       (/\ Answers(r)
        /\ req'[r].kind \in {"PUT", "DELETE"}
        /\ req'[r].seen.auth /\ req'[r].seen.exists /\ ~req'[r].seen.owner)
       => (req'[r].resp = 403 /\ ~req'[r].wrote /\ StoreUnchanged)]_vars

\* C3 as amended: a DELETE, or a PUT whose body passes validation, for an existing
\* buyer by a signed-in user who is not its owner is answered 403 whatever its
\* token; a PUT of such a user whose body fails validation is answered 400; in both
\* cases neither the buyers nor the history change.
C3_NonOwnerForbidden ==
  [][\A r \in Slots :
       (/\ Answers(r)
        /\ req'[r].kind \in {"PUT", "DELETE"}
        /\ req'[r].seen.auth /\ req'[r].seen.exists /\ ~req'[r].seen.owner)
       => (/\ req'[r].resp = IF req'[r].seen.valid THEN 403 ELSE 400
           /\ ~req'[r].wrote
           /\ StoreUnchanged)]_vars

C3_Witness ==
  \E r1, r2 \in Slots :
    /\ req[r1].pc = "done" /\ req[r1].kind = "PUT"
    /\ req[r1].seen.valid /\ req[r1].seen.exists /\ ~req[r1].seen.owner
    /\ req[r1].seen.fresh /\ req[r1].resp = 403
    /\ req[r2].pc = "done" /\ req[r2].kind = "DELETE"
    /\ req[r2].seen.auth /\ req[r2].seen.exists /\ ~req[r2].seen.owner
    /\ req[r2].resp = 403

\* C4: a create, update or delete request that is answered with a failure status
\* has committed no statement: the buyers and the history are as before it.
C4_FailureLeavesStore ==
  \A r \in Slots :
    (/\ req[r].pc = "done"
     /\ req[r].kind \in {"POST", "PUT", "DELETE"}
     /\ req[r].resp >= 400)
    => ~req[r].wrote

\* the keys of the validated body whose value is not the stored one; a key that the
\* body leaves out is not assigned and keeps the stored value
ChangedKeys(q) ==
  {k \in DOMAIN q.validatedData \ {"id", "updatedAt"} :
     q.validatedData[k] # q.currentBuyer[k]}

\* the body holds the stored value of every column, the nullable ones included
SameAsStored(q) ==
  /\ ChangedKeys(q) = {}
  /\ \A k \in {"email", "notes"} : Has(q.validatedData, k) \/ q.currentBuyer[k] = Null

AnswersPut(r) == ~Free(r) /\ req[r].kind = "PUT" /\ Answers(r)

\* C5: an accepted update whose values all equal the stored ones succeeds, stores
\* the new updatedAt and appends no history entry.
C5_NoChangeNoHistory ==
  [][\A r \in Slots :
       (AnswersPut(r) /\ req'[r].resp = 200 /\ SameAsStored(req[r]))
       => (/\ history' = history
           /\ \E b \in RowsWithId(buyers', req[r].id) :
                b.updatedAt = req[r].set.updatedAt)]_vars

\* C6: an accepted update that changes the value of exactly one field X appends
\* exactly one history entry, of the acting user, whose diff has the single key X,
\* from the stored value to the new one.
C6_OneChangeOneKey ==
  [][\A r \in Slots : \A X \in buyerKeys :
       (AnswersPut(r) /\ req'[r].resp = 200 /\ ChangedKeys(req[r]) = {X})
       => (/\ Len(history') = Len(history) + 1
           /\ LET h == history'[Len(history')]
              IN /\ h.buyerId = req[r].id
                 /\ h.changedBy = req[r].user
                 /\ DOMAIN h.diff = {X}
                 /\ h.diff[X] = [from |-> req[r].currentBuyer[X],
                                 to |-> req[r].validatedData[X]])]_vars

\* C7: the DELETE statement of an accepted delete leaves no buyer with the
\* addressed id and no history entry that references it.
C7_DeleteCascades ==
  [][\A r \in Slots :
       (req[r].pc = "del_delete" /\ Answers(r) /\ req'[r].resp = 200)
       => (/\ RowsWithId(buyers', req[r].id) = {}
           /\ Len(HistoryOf(history', req[r].id)) = 0)]_vars

C7_Witness ==
  \E r \in Slots :
    /\ req[r].pc = "done" /\ req[r].kind = "DELETE"
    /\ req[r].resp = 200 /\ req[r].wrote
    /\ req[r].cascaded > 0

\* C8: the bulk commit of an import is all or nothing: when a statement of it fails
\* the import is answered 500 and the buyers and the history are as before; when it
\* succeeds every valid row is a buyer of the importing user with exactly one
\* history entry.
C8_ImportAllOrNothing ==
  [][\A r \in Slots :
       (req[r].pc = "imp_tx" /\ Answers(r))
       => IF req'[r].resp = 500
          THEN StoreUnchanged
          ELSE /\ req'[r].resp \in {200, 207}
               /\ \A j \in 1..Len(req[r].validRows) :
                    LET id == req[r].validRows[j].id
                    IN /\ Cardinality(RowsWithId(buyers', id)) = 1
                       /\ \A b \in RowsWithId(buyers', id) :
                            /\ b.ownerId = req[r].user
                            /\ b.phone = req[r].validRows[j].phone
                       /\ Len(HistoryOf(history', id)) = 1
               /\ Cardinality(buyers') = Cardinality(buyers) + Len(req[r].validRows)
               /\ Len(history') = Len(history) + Len(req[r].validRows)]_vars

C8_Witness ==
  \E r \in Slots :
    /\ req[r].pc = "done" /\ req[r].kind = "IMPORT"
    /\ req[r].resp = 500
    /\ req[r].validCount = 2

\* C9: an import never commits two rows with the same phone or the same e-mail: the
\* later of two such rows of a file is a row failure.
C9_NoDuplicateInBatch ==
  [][\A r \in Slots :
       (req[r].pc = "imp_tx" /\ Answers(r) /\ req'[r].resp < 400)
       => \A j, k \in 1..Len(req[r].validRows) :
            j < k =>
              /\ req[r].validRows[j].phone # req[r].validRows[k].phone
              /\ ~(/\ Has(req[r].validRows[j], "email")
                   /\ Has(req[r].validRows[k], "email")
                   /\ req[r].validRows[j].email = req[r].validRows[k].email)]_vars

\* passes of the validation loop run in this step, and the import goes on
RowPass(r) ==
  /\ req'[r].pc \in {"imp_row", "imp_tx"}
  /\ \/ ops' = ops + 1 /\ CanStart(r)
     \/ req[r].pc = "imp_row"

\* the indices of the rows whose passes run in this step
Passed(r) == (IF req[r].pc = "imp_row" THEN req[r].i ELSE 1)..(req'[r].i - 1)

\* C10: a row of an import whose phone or e-mail is that of a stored buyer of the
\* importing user is recorded as a row failure.
C10_ExistingDuplicateRejected ==
  [][\A r \in Slots :
       RowPass(r) =>
         \A j \in Passed(r) :
           LET q == req'[r]
               row == q.rows[j]
           IN (\E b \in buyers :
                 /\ b.ownerId = q.user
                 /\ \/ b.phone = row.phone
                    \/ row.email # Null /\ b.email = row.email)
              => \E e \in 1..Len(q.errors) : q.errors[e] = j + 1]_vars

\* an import is answered in this step
AnswersImport(r) == Answers(r) /\ req'[r].kind = "IMPORT"

\* C11: a row of an import never keeps another row from being imported: when the
\* store is up, every row that passed its own checks and that the store can hold is
\* a buyer after the import, whatever the other rows of the file are.
C11_RowFailureNeverAborts ==
  [][\A r \in Slots :
       (req[r].pc = "imp_tx" /\ AnswersImport(r) /\ ~req'[r].fault)
       => \A j \in 1..Len(req[r].validRows) :
            IntegerColumnOk(req[r].validRows[j])
            => RowsWithId(buyers', req[r].validRows[j].id) # {}]_vars

\* C12: an import of a file with more than 200 data rows is answered 400 before the
\* loop runs: no request with such a file is ever in flight, and the buyers and the
\* history are as before.
C12_TooManyRowsRejected ==
  [][\A r \in Slots :
       /\ req'[r].pc \in {"imp_row", "imp_tx"} => Len(req'[r].rows) <= CsvMaxRows
       /\ (AnswersImport(r) /\ req'[r].seen.auth /\ req'[r].totalCount > CsvMaxRows)
          => (/\ req'[r].resp = 400
              /\ ~req'[r].wrote
              /\ StoreUnchanged)]_vars

C12_Witness ==
  \E r \in Slots :
    /\ req[r].pc = "done" /\ req[r].kind = "IMPORT"
    /\ req[r].seen.auth
    /\ req[r].totalCount = CsvMaxRows + 1
    /\ req[r].resp = 400

\* the import ran its loop: the caller is signed in and the file has 1..200 rows
RanLoop(q) == q.seen.auth /\ q.totalCount >= 1 /\ q.totalCount <= CsvMaxRows

C16_UpdatedAtStrictlyIncreases ==
  [][\A r \in Slots :
       (req[r].pc = "put_update" /\ req'[r].pc # "put_update" /\ buyers' # buyers)
       => \A b \in RowsWithId(buyers, req[r].id) :
            \A b2 \in buyers' \ buyers : b2.updatedAt > b.updatedAt]_vars

\* C17: the owner of a buyer is the user whose create or import inserted it, and the
\* UPDATE of an update request leaves the owner of the row as it was, whatever the
\* body of the request.
C17_OwnerImmutable ==
  [][\A b2 \in buyers' \ buyers :
       \E r \in Slots :
         \/ /\ req[r].pc = "put_update" /\ req'[r].pc # "put_update"
            /\ \E b \in RowsWithId(buyers, req[r].id) : b2.ownerId = b.ownerId
         \/ /\ req'[r].pc = "post_hist" /\ req[r].pc # "post_hist"
            /\ b2.ownerId = req'[r].user
         \/ /\ req[r].pc = "imp_tx" /\ req'[r].pc = "done"
            /\ b2.ownerId = req[r].user]_vars

C17_Witness ==
  \E r \in Slots :
    /\ req[r].pc = "done" /\ req[r].kind = "PUT"
    /\ req[r].seen.ownerSent
    /\ req[r].resp = 200 /\ req[r].wrote
    /\ \A b \in buyers : b.id = 1 => b.ownerId = "u1"

\* C18: every history entry references a buyer of the store.
C18_NoOrphanHistory ==
  \A i \in 1..Len(history) : RowsWithId(buyers, history[i].buyerId) # {}

C18_Witness ==
  /\ Len(history) > 0
  /\ \E r \in Slots :
       /\ req[r].pc = "done" /\ req[r].kind = "DELETE"
       /\ req[r].resp = 200 /\ req[r].cascaded > 0

\* C19: the history is append-only: in every step the entries whose buyer is still
\* stored stay, unchanged and in their order, at the head of the history, so that an
\* entry goes only with its buyer and nothing is written but new entries.
C19_HistoryAppendOnly ==
  [][LET kept == SelectSeq(history, LAMBDA h : RowsWithId(buyers', h.buyerId) # {})
     IN /\ Len(history') >= Len(kept)
        /\ SubSeq(history', 1, Len(kept)) = kept]_vars

C19_Witness ==
  \E i, j \in 1..Len(history) :
    /\ i < j
    /\ history[i].buyerId = history[j].buyerId
    /\ Has(history[i].diff, "created")
    /\ ~Has(history[j].diff, "created")

\* the filters as the list is to apply them: the query a substring, case ignored, of
\* the e-mail or the phone, and the status equal
Satisfies(b, p) ==
  /\ p.query # "" => (Substring(b.email, p.query) \/ Substring(b.phone, p.query))
  /\ p.status # Null => b.status = p.status

\* C14: the count statement of a list request gives the number of the stored buyers
\* that satisfy the filters of the request, and the response has that total, pages =
\* ceil(total / limit) and a page of at most limit buyers that each satisfy the
\* filters.
C14_ListTotalAndPage ==
  [][\A r \in Slots :
       /\ (req'[r].pc = "list_select" /\ req[r].pc # "list_select")
          => req'[r].total =
               Cardinality({b \in buyers : Satisfies(b, req'[r].params)})
       /\ (req[r].pc = "list_select" /\ Answers(r))
          => LET a == req'[r]
                 p == req[r].params
             IN /\ a.resp = 200
                /\ a.pagination.total = req[r].total
                /\ a.pagination.pages = MathCeil(req[r].total, p.limit)
                /\ Len(a.data) <= p.limit
                /\ \A i \in 1..Len(a.data) :
                     a.data[i] \in buyers /\ Satisfies(a.data[i], p)]_vars

\* C15: for the parameters of a list request, the export returns exactly the stored
\* buyers that the where clause of the list matches.
C15_ExportMatchesList ==
  [][\A r \in Slots :
       (Answers(r) /\ req'[r].kind = "EXPORT" /\ req'[r].resp = 200
          /\ req'[r].seen.valid)
       => req'[r].buyersData = {b \in buyers : ListWhere(b, req'[r].params)}]_vars

\* C20: the fetch of a buyer returns at most 5 history entries, all of that buyer,
\* each once, newest first, and no entry of the buyer that is left out is newer than
\* one that is returned: they are the min(5, n) most recent of its n entries.
C20_LastFiveHistory ==
  [][\A r \in Slots :
       (req[r].pc = "get_hist" /\ Answers(r))
       => LET res == req'[r].history
              mine == {i \in 1..Len(history) : history[i].buyerId = req[r].id}
              got == {res[k].id : k \in 1..Len(res)}
          IN /\ req'[r].resp = 200
             /\ Len(res) <= HistoryLimit
             /\ Len(res) = IF Cardinality(mine) < HistoryLimit THEN Cardinality(mine)
                           ELSE HistoryLimit
             /\ Cardinality(got) = Len(res)
             /\ got \subseteq mine
             /\ \A k \in 1..Len(res) : res[k] = HistoryRow(history, res[k].id)
             /\ \A k, l \in 1..Len(res) : k < l => res[k].changedAt >= res[l].changedAt
             /\ \A i \in mine \ got : \A k \in 1..Len(res) :
                  history[i].changedAt <= res[k].changedAt]_vars

C20_Witness ==
  \E r \in Slots :
    /\ req[r].pc = "done" /\ req[r].kind = "GET" /\ req[r].resp = 200
    /\ Len(req[r].history) = HistoryLimit
    /\ Len(HistoryOf(history, req[r].buyer.id)) > HistoryLimit
    /\ req[r].history[1].changedAt > req[r].history[HistoryLimit].changedAt
    /\ \E i \in 1..Len(history) :
         /\ history[i].buyerId = req[r].buyer.id
         /\ history[i].changedAt < req[r].history[HistoryLimit].changedAt

\* C21: an import that is answered with a result (200 or 207) lists min(k, 100) row
\* errors for its k failed rows, in ascending row order and without a gap before the
\* last listed one, with hasMoreErrors exactly when k > 100; the error of the i-th
\* data row (counted from 1) has the row number i + 1.
C21_ErrorListCapped ==
  [][\A r \in Slots :
       (AnswersImport(r) /\ req'[r].resp \in {200, 207})
       => LET a == req'[r]
              k == a.totalCount - a.imported
              listed == {a.errors[e] : e \in 1..Len(a.errors)}
          IN /\ Len(a.errors) <= ErrorCap
             /\ Len(a.errors) = IF k < ErrorCap THEN k ELSE ErrorCap
             /\ a.hasMoreErrors = (k > ErrorCap)
             /\ listed \subseteq 2..(a.totalCount + 1)
             /\ \A e, f \in 1..Len(a.errors) : e < f => a.errors[e] < a.errors[f]
             /\ \A i \in a.malformed :
                  (Len(a.errors) < ErrorCap \/ i + 1 < a.errors[Len(a.errors)])
                  => i + 1 \in listed]_vars

C21_Witness ==
  \E r \in Slots :
    /\ req[r].pc = "done" /\ req[r].kind = "IMPORT" /\ req[r].resp = 207
    /\ req[r].totalCount = ErrorCap + 1 /\ req[r].imported = 0
    /\ req[r].hasMoreErrors
    /\ Len(req[r].errors) = ErrorCap
    /\ req[r].errors[1] = 2 /\ req[r].errors[ErrorCap] = ErrorCap + 1

\* a record whose bhk, when present, is a bedroom category
BhkWellFormed(data) == Has(data, "bhk") => data.bhk \in bhkEnum

\* a record that is valid but for the requirement on bhk: a phone of 10 to 15
\* digits, a property type of the enum, and the budgets absent or positive integers
\* with max >= min
OtherwiseValid(data) ==
  /\ data.phone \in {P1, P2}
  /\ data.propertyType \in propertyTypeEnum
  /\ BhkWellFormed(data)
  /\ \A k \in {"budgetMin", "budgetMax"} :
       Has(data, k) => (data[k].tenths = 0 /\ data[k].whole > 0)
  /\ (Has(data, "budgetMin") /\ Has(data, "budgetMax"))
       => data.budgetMax.whole >= data.budgetMin.whole

\* C22: for an otherwise valid record each of the three schemas reports a violation
\* on bhk exactly when the property type is Apartment or Villa and bhk is absent, and
\* reports nothing else: Plot, Office and Retail pass with and without bhk.
C22_BhkRequired ==
  \A r \in Slots :
    (req[r].pc = "done" /\ req[r].kind = "PARSE" /\ OtherwiseValid(req[r].data))
    => LET data == req[r].data
           required == data.propertyType \in {"Apartment", "Villa"}
       IN /\ ("bhk" \in req[r].issues) = (required /\ ~Has(data, "bhk"))
          /\ req[r].issues \subseteq {"bhk"}
          /\ ~required => req[r].issues = {}

C22_Witness ==
  \E r1, r2 \in Slots :
    /\ req[r1].pc = "done" /\ req[r1].kind = "PARSE"
    /\ req[r1].schema = "csvBuyerSchema"
    /\ OtherwiseValid(req[r1].data)
    /\ req[r1].data.propertyType = "Villa" /\ ~Has(req[r1].data, "bhk")
    /\ req[r1].issues = {"bhk"}
    /\ req[r2].pc = "done" /\ req[r2].kind = "PARSE"
    /\ req[r2].schema = "updateBuyerSchema"
    /\ OtherwiseValid(req[r2].data)
    /\ req[r2].data.propertyType = "Plot" /\ ~Has(req[r2].data, "bhk")
    /\ req[r2].issues = {}

\* a record that is valid but for its budgets: a phone of 10 to 15 digits, a property
\* type of the enum, bhk a bedroom category and present where required
BudgetsApart(data) ==
  /\ data.phone \in {P1, P2}
  /\ data.propertyType \in propertyTypeEnum
  /\ BhkWellFormed(data)
  /\ data.propertyType \in {"Apartment", "Villa"} => Has(data, "bhk")

\* both budgets present and max < min
MaxBelowMin(data) ==
  /\ Has(data, "budgetMin") /\ Has(data, "budgetMax")
  /\ data.budgetMax.whole < data.budgetMin.whole

\* the budgets that are present are integers, and integers of at least `least`
IntegerBudgets(data, least) ==
  \A k \in {"budgetMin", "budgetMax"} :
    Has(data, k) => (data[k].tenths = 0 /\ data[k].whole >= least)

\* C23 as stated: for an otherwise valid record with integer budgets, validation
\* reports a violation on budgetMax when both budgets are present and max < min, and
\* succeeds when max >= min or a budget is absent.
C23_BudgetOrder_Original ==
  \A r \in Slots :
    (/\ req[r].pc = "done" /\ req[r].kind = "PARSE"
     /\ req[r].schema = "buyerSchema"
     /\ BudgetsApart(req[r].data)
     /\ IntegerBudgets(req[r].data, -1))
    => IF MaxBelowMin(req[r].data) THEN "budgetMax" \in req[r].issues
       ELSE req[r].issues = {}

\* C23 as amended: for an otherwise valid record whose budgets are positive integers,
\* each of the three schemas reports exactly one violation path, budgetMax, when both
\* budgets are present and max < min, and succeeds when max >= min or a budget is
\* absent; the create and update schemas report a budget of 0 or less on its own
\* field, and so still report budgetMax for every integer max < min.
C23_BudgetOrder ==
  \A r \in Slots :
    (req[r].pc = "done" /\ req[r].kind = "PARSE" /\ BudgetsApart(req[r].data))
    => LET data == req[r].data
       IN /\ IntegerBudgets(data, 1)
             => req[r].issues = IF MaxBelowMin(data) THEN {"budgetMax"} ELSE {}
          /\ (req[r].schema # "csvBuyerSchema" /\ IntegerBudgets(data, -1))
             => /\ MaxBelowMin(data) => "budgetMax" \in req[r].issues
                /\ \A k \in {"budgetMin", "budgetMax"} :
                     (Has(data, k) /\ data[k].whole <= 0) => k \in req[r].issues

C23_Witness ==
  \E r1, r2 \in Slots :
    /\ req[r1].pc = "done" /\ req[r1].kind = "PARSE"
    /\ req[r1].schema = "buyerSchema"
    /\ BudgetsApart(req[r1].data)
    /\ Has(req[r1].data, "budgetMin") /\ req[r1].data.budgetMin = Num(3)
    /\ Has(req[r1].data, "budgetMax") /\ req[r1].data.budgetMax = Num(1)
    /\ req[r1].issues = {"budgetMax"}
    /\ req[r2].pc = "done" /\ req[r2].kind = "PARSE"
    /\ req[r2].schema = "buyerSchema"
    /\ BudgetsApart(req[r2].data)
    /\ Has(req[r2].data, "budgetMin") /\ req[r2].data.budgetMin = Num(3)
    /\ Has(req[r2].data, "budgetMax") /\ req[r2].data.budgetMax = Num(3)
    /\ req[r2].issues = {}

\* C24: within one minute the rate-limit check lets through at most 10 create
\* requests and at most 20 update requests of a client, and a request that it
\* stops is answered 429.
C24_RateLimited ==
  \A r \in Slots :
    (req[r].pc = "done" /\ req[r].kind = "RATE")
    => /\ req[r].passed["CREATE_BUYER"] <= CreateLimit
       /\ req[r].passed["UPDATE_BUYER"] <= UpdateLimit

\* C25: a status quick action of a signed-in user for a stored buyer of that user
\* leaves the buyer with the chosen status when its request is answered.
C25_QuickActionSetsStatus ==
  [][\A r \in Slots :
       (/\ Answers(r)
        /\ req'[r].kind = "PUT"
        /\ req'[r].seen.quick # <<>>
        /\ req'[r].seen.auth /\ req'[r].seen.exists /\ req'[r].seen.owner)
       => \A b \in RowsWithId(buyers', req'[r].seen.quick[1]) :
            b.status = req'[r].seen.quick[2]]_vars

\* C26: the UPDATE of an accepted update leaves the ids of the store as they were: a
\* buyer with the path id is still stored, and no buyer has an id that no buyer had
\* before, whatever the id of the body.
C26_IdNeverChanges ==
  [][\A r \in Slots :
       (req[r].pc = "put_update" /\ req'[r].pc # "put_update" /\ buyers' # buyers)
       => /\ RowsWithId(buyers', req[r].id) # {}
          /\ {b.id : b \in buyers'} = {b.id : b \in buyers}]_vars

\* the buyer was inserted by an import: its history holds the entry of an import
Imported(b) ==
  \E i \in 1..Len(history) : history[i].buyerId = b.id /\ Has(history[i].diff, "to")

\* C27: the check of a row against the stored buyers and the bulk insert of its
\* import are not interleaved with another import of the same user: when the bulk
\* insert commits, no stored buyer that an import of that user inserted has the
\* phone of one of the committed rows.
C27_ConcurrentImportsExclusive ==
  [][\A r \in Slots :
       (req[r].pc = "imp_tx" /\ Answers(r) /\ req'[r].resp < 400)
       => \A j \in 1..Len(req[r].validRows) :
            ~\E b \in buyers :
               /\ b.ownerId = req[r].user
               /\ b.phone = req[r].validRows[j].phone
               /\ Imported(b)]_vars

\* C28: for every identifier of the sliding-window limiter, no span of Interval
\* clock values holds more than `limit` calls that were answered with success, and
\* a call that is rejected adds nothing to the stored requests of the identifier.
C28_SlidingWindow ==
  [][\A r \in Slots :
       req'[r].pc = "done" =>
         /\ \A a \in 0..MaxClock :
              Cardinality({k \in 1..Len(req'[r].successes) :
                             /\ a <= req'[r].successes[k]
                             /\ req'[r].successes[k] < a + Interval}) <= req'[r].limit
         /\ (req[r].pc = "done" /\ req'[r].calls > req[r].calls /\ ~req'[r].success)
            => /\ req'[r].requests \in {req[r].requests, cleanup(req[r].requests)}
               /\ req'[r].successes = req[r].successes]_vars

C28_Witness ==
  \E r \in Slots :
    /\ req[r].pc = "done" /\ req[r].kind = "CHECK"
    /\ req[r].limit = 2
    /\ Len(req[r].successes) = 3
    /\ req[r].successes[3] >= req[r].successes[1] + Interval
    /\ req[r].calls = MaxCalls
    /\ ~req[r].success

\* C29: for every url the redirect callback returns a URL that starts with baseUrl
\* and that is not the URL of the sign-in page /auth/signin.
C29_RedirectNeverSignIn ==
  \A r \in Slots :
    (req[r].pc = "done" /\ req[r].kind = "REDIRECT")
    => /\ req[r].result.origin = "base"
       /\ Resolve(req[r].result.path) # SignIn

NoDuplicate(tags) == \A i, j \in 1..Len(tags) : tags[i] = tags[j] => i = j
NoBlank(tags) == \A i \in 1..Len(tags) : trim(tags[i]) # ""

\* the tags of both lists stand in the same order in both, and the tags that only
\* the second list has stand after them
KeepsOrder(old, new) ==
  /\ SelectSeq(new, LAMBDA tag : InSeq(old, tag)) = SelectSeq(old, LAMBDA tag : InSeq(new, tag))
  /\ \A i, j \in 1..Len(new) : (~InSeq(old, new[i]) /\ InSeq(old, new[j])) => j < i

====
